---- MODULE Spec2Model ----
(***************************************************************************)
(* Model of evalsa_worker::launch (src/src/lib.rs): the parent that        *)
(* supervises a compile-phase child and a run-phase child, the pipes       *)
(* between them, the bind mounts and the per-job temporary directory.      *)
(* Byte streams are modelled by their lengths, in blocks: the caps, the    *)
(* read buffer and the kernel pipe capacity are scaled down together and   *)
(* keep their order  StderrCap < BufSize < PipeCap < StdoutCap.            *)
(***************************************************************************)
EXTENDS Integers, Sequences, FiniteSets, TLC

\* ---- program constants (scaled) ----------------------------------------
StdoutCap == 5      \* 256 << 20 in the source
StderrCap == 1      \* 2 << 10 in the source
BufSize == 2        \* vec![0; 8192] in the source
SIGKILL == "SIGKILL"
SIGSEGV == "SIGSEGV"
SIGABRT == "SIGABRT"
PageKib == 4        \* usage.ru_majflt * 4
timeout == 1        \* option.timeout: 1000 ms in main.rs, one clock tick here

\* ---- bounds --------------------------------------------------------------
PipeCap == 3        \* capacity of a kernel pipe buffer, in blocks
MaxOut == 6         \* most blocks the run program itself writes to stdout
MaxErr == 4         \* most blocks a program writes to stderr
MaxDOut == 6        \* most blocks a surviving descendant writes to stdout
MaxMounts == 2      \* length of sandbox.mounts

\* ---- values ----------------------------------------------------------------
Exited(k) == <<"exited", k>>
Signaled(s) == <<"signaled", s>>
WIFEXITED(ws) == ws[1] = "exited"
WEXITSTATUS(ws) == ws[2]
WTERMSIG(ws) == ws[2]

Exit(k) == <<"Exit", k>>
CompilationError == <<"CompilationError">>
RuntimeError == <<"RuntimeError">>
OutputLimitExceeded == <<"OutputLimitExceeded">>
TimeLimitExceeded == <<"TimeLimitExceeded">>

empty_rusage == [ru_majflt |-> 0, tv_sec |-> 0, tv_usec |-> 0]
Usages == {empty_rusage, [ru_majflt |-> 1, tv_sec |-> 1, tv_usec |-> 2500]}

Min(a, b) == IF a < b THEN a ELSE b

\* what an untrusted program does once it runs: it writes `out` blocks to
\* fd 1 and `err` blocks to fd 2 and then ends as `end` says; with `fork` it
\* first leaves a descendant behind that inherits fds 1 and 2, writes `dout`
\* blocks to fd 1 and then exits or stays (`dend`).
Ends == {Exited(0), Exited(1), Signaled(SIGSEGV), Signaled(SIGKILL), <<"loop">>}
OutChoices == {0, 1, PipeCap + 1, MaxOut}
ErrChoices == {0, BufSize, MaxErr}
CompilePlans ==
    [out : {0}, err : ErrChoices, end : Ends \ {Signaled(SIGKILL)},
     fork : {FALSE}, dout : {0}, dend : {"exit"}]
RunPlans ==
    [out : OutChoices, err : ErrChoices, end : Ends,
     fork : {FALSE}, dout : {0}, dend : {"exit"}]
    \cup
    [out : {0}, err : {0}, end : {Exited(0), <<"loop">>},
     fork : {TRUE}, dout : {0, StdoutCap, MaxDOut}, dend : {"exit", "forever"}]
\* no program image yet: the child has not called exec
NoPlan == [out |-> 0, err |-> 0, end |-> <<"none">>,
           fork |-> FALSE, dout |-> 0, dend |-> "exit"]

NoChild == [st |-> "none", outLeft |-> 0, errLeft |-> 0, kp |-> FALSE,
            ws |-> Exited(0), step |-> 1, done |-> <<>>]

\* the run child's closure, call by call (lib.rs 175-193)
SetupSteps ==
    <<"chdir", "chroot", "close_0", "open_stdin", "close_1", "dup2_stdout",
      "close_stdout_tx", "close_2", "dup2_stderr", "close_stderr_tx",
      "rlimit_core", "rlimit_fsize", "rlimit_as", "execve">>

\* a closure whose last setrlimit is not unwrapped either
Unwrapped_butRlimitAs(step) == step \notin {"close_stderr_tx", "rlimit_as"}

\* the calls whose result is .unwrap()ed: all but close(stderr_tx).ok()
Unwrapped(step) == step # "close_stderr_tx"
NoResult == [status |-> <<"none">>, stdout |-> 0, stderr |-> 0,
             memory_kib |-> 0, user_time_ms |-> 0]

VARIABLES
    pc,             \* position of the parent inside launch
    hasCompile,     \* language.compile.is_some()
    nmounts,        \* sandbox.mounts.len()
    workspace,      \* the temporary directory exists
    files,          \* files written into the workspace
    fds,            \* open pipe ends: <<holder, pipe, end>>
    plen,           \* blocks buffered in each pipe
    cprog, cchild,  \* compile command's behaviour and its process
    rprog, rchild,  \* run program's behaviour and its process
    desc,           \* descendant left behind by the run program
    now, deadline,  \* Instant::now() and the current phase's deadline
    wait, wait_status, usage,   \* wait4's result and out-parameters
    mi, mounted,    \* mount loop index, mounts in place
    status, stdout, stderr,     \* launch's locals (streams as lengths)
    result,         \* the LaunchResult returned
    killSent,       \* history: phases in which the supervisor called kill
    killTime,       \* history: now - deadline at the latest kill
    strayKill,      \* history: a kill was sent to a pid already waited for
    mountCalls,     \* history: number of mount and umount calls made
    mpc,            \* position of main inside the consumer loop
    consumer,       \* messages the consumer's receiver still yields
    run,            \* the decoded Run of the current delivery
    log,            \* history: acks, published events and launch calls
    slow            \* history: in this phase, time passed while its child could run

vars == <<pc, hasCompile, nmounts, workspace, files, fds, plen,
          cprog, cchild, rprog, rchild, desc, now, deadline, wait, wait_status,
          usage, mi, mounted, status, stdout, stderr, result, killSent,
          killTime, strayKill, mountCalls, slow, mpc, consumer, run, log>>

mainVars == <<mpc, consumer, run, log>>
inputs == <<hasCompile, nmounts, mainVars>>
fsVars == <<workspace, files, mi, mounted, mountCalls>>
procVars == <<cprog, cchild, rprog, rchild, desc>>
clockVars == <<now, deadline, slow>>
waitVars == <<wait, wait_status, usage>>
outVars == <<status, stdout, stderr, result>>
histVars == <<killSent, killTime, strayKill>>

Pipes == {"cerr", "out", "err"}

\* the language and sandbox launch is given, and its locals before line 74
Locals ==
    /\ hasCompile \in BOOLEAN
    /\ nmounts \in 0..MaxMounts
    /\ workspace = FALSE
    /\ files = {}
    /\ fds = {}
    /\ plen = [p \in Pipes |-> 0]
    /\ cprog = NoPlan /\ cchild = NoChild
    /\ rprog = NoPlan /\ rchild = NoChild
    /\ desc = [st |-> "none", outLeft |-> 0]
    /\ now = 0 /\ deadline = 0
    /\ wait = 0 /\ wait_status = Exited(0) /\ usage = empty_rusage
    /\ mi = 0 /\ mounted = {}
    /\ status = <<"none">> /\ stdout = 0 /\ stderr = 0
    /\ result = NoResult
    /\ killSent = {} /\ killTime = 0 /\ strayKill = FALSE
    /\ mountCalls = 0
    /\ slow = FALSE

\* ---- main.rs: what the queue delivers ------------------------------------
\* config.languages holds one language; its compile command is hasCompile
Configured == {"c"}
Delivery(id, language) == <<"Delivery", [id |-> id, language |-> language]>>
\* two jobs in languages the worker does not know around one it knows, then
\* the consumer is cancelled
Messages == <<Delivery("j1", "cobol"), Delivery("j2", "c"),
              Delivery("j3", "ada"), <<"ServerCancelled">>>>
NoRun == [id |-> "none", language |-> "none"]

\* launch called on its own, outside the consumer loop
Init ==
    /\ pc = "start"
    /\ mpc = "direct" /\ consumer = <<>> /\ run = NoRun /\ log = <<>>
    /\ Locals

\* main.rs 14-26: configuration read, queues declared, consumer started
MainInit ==
    /\ pc = "idle"
    /\ mpc = "recv" /\ consumer = Messages /\ run = NoRun /\ log = <<>>
    /\ Locals

\* ---- pipes -------------------------------------------------------------
Writers(p) == {h \in {"parent", "cchild", "rchild", "desc"} : <<h, p, "tx">> \in fds}
\* read(2) on a pipe blocks while it is empty and a write end is open
CanRead(p) == plen[p] > 0 \/ Writers(p) = {}
ReadLen(p) == Min(plen[p], BufSize)
Inherit(from, to) == {<<to, f[2], f[3]>> : f \in {g \in fds : g[1] = from}}
CloseAll(h) == {f \in fds : f[1] # h}

\* Drop of tempfile::TempDir (remove_dir_all, errors ignored): whether the
\* directory is still there afterwards; one that carries a mount stays.
DropTempDir == mounted # {}

\* ---- the parent: compile phase ----------------------------------------
\* lib.rs 74-78: tempdir, write the source file
Start ==
    /\ pc = "start"
    /\ workspace' = TRUE
    /\ files' = files \cup {"source"}
    /\ pc' = IF hasCompile THEN "c_pipe" ELSE "r_stdin"
    /\ UNCHANGED <<inputs, fds, plen, procVars, clockVars, waitVars, mi,
                   mounted, mountCalls, outVars, histVars>>

\* lib.rs 79: pipe() for the compiler's stderr
CompilePipe ==
    /\ pc = "c_pipe"
    /\ fds' = fds \cup {<<"parent", "cerr", "rx">>, <<"parent", "cerr", "tx">>}
    /\ pc' = "c_clone"
    /\ UNCHANGED <<inputs, fsVars, plen, procVars, clockVars, waitVars,
                   outVars, histVars>>

\* lib.rs 86-103: clone; the child starts with a copy of the parent's fds
CompileClone ==
    /\ pc = "c_clone"
    /\ \/ /\ \E p \in CompilePlans :
               /\ cprog' = p
               /\ cchild' = [NoChild EXCEPT !.st = "setup", !.errLeft = p.err]
          /\ fds' = fds \cup Inherit("parent", "cchild")
          /\ pc' = "c_deadline"
          /\ UNCHANGED workspace
       \/ /\ pc' = "panic"          \* clone(2) failed: unwrap
          /\ workspace' = DropTempDir
          /\ UNCHANGED <<cprog, cchild, fds>>
    /\ UNCHANGED <<inputs, files, mi, mounted, mountCalls, plen, rprog, rchild,
                   desc, clockVars, waitVars, outVars, histVars>>

\* lib.rs 104-107
CompileDeadline ==
    /\ pc = "c_deadline"
    /\ deadline' = now + timeout
    /\ usage' = empty_rusage
    /\ wait_status' = Exited(0)
    /\ pc' = "c_wait"
    /\ UNCHANGED <<inputs, fsVars, fds, plen, procVars, now, slow, wait,
                   outVars, histVars>>

\* wait4(pid, &mut wait_status, WNOHANG, &mut usage) for child c: the pid
\* (1) with the status and the usage if c is a zombie, which is thereby
\* reaped; 0 while c has not ended; -1 on a host error.  With WNOHANG and a
\* valid pid the error is ECHILD: the ended child is no longer this
\* process's to wait for (the kernel discarded it, as it does when SIGCHLD
\* is ignored), so it is "lost" rather than reaped.  lib.rs 109, 207
Wait4(c, c2) ==
    \/ /\ c.st = "zombie"
       /\ wait' = -1
       /\ UNCHANGED <<wait_status, usage>>
       /\ c2 = [c EXCEPT !.st = "lost"]
    \/ /\ c.st = "zombie"
       /\ wait' = 1
       /\ wait_status' = c.ws
       /\ \E u \in Usages : usage' = u
       /\ c2 = [c EXCEPT !.st = "reaped"]
    \/ /\ c.st # "zombie"
       /\ wait' = 0
       /\ UNCHANGED <<wait_status, usage>>
       /\ c2 = c

\* a supervisor whose kill never reaches the child
Kill_lost(c) == c

\* kill(pid, SIGKILL) on child c: the signal becomes pending on a live
\* child and is a no-op on a zombie.  lib.rs 114, 212
Kill(c) == IF c.st \in {"setup", "running"} THEN [c EXCEPT !.kp = TRUE] ELSE c

\* wait4 has reported the child (or there is none): its pid is no longer
\* this process's to signal
Reported(c) == c.st \in {"none", "reaped", "lost"}

\* lib.rs 109-112
CompileWait ==
    /\ pc = "c_wait"
    /\ Wait4(cchild, cchild')
    /\ pc' = IF wait' # 0 THEN "c_after" ELSE "c_check"
    /\ UNCHANGED <<inputs, fsVars, fds, plen, cprog, rprog, rchild, desc,
                   clockVars, outVars, histVars>>

\* lib.rs 113-115
CompileCheck ==
    /\ pc = "c_check"
    /\ IF now > deadline
         THEN /\ cchild' = Kill(cchild)
              /\ killSent' = killSent \cup {"compile"}
              /\ killTime' = now - deadline
              /\ strayKill' = (strayKill \/ Reported(cchild) \/ wait # 0)
         ELSE UNCHANGED <<cchild, killSent, killTime, strayKill>>
    /\ pc' = "c_wait"
    /\ UNCHANGED <<inputs, fsVars, fds, plen, cprog, rprog, rchild, desc,
                   clockVars, waitVars, outVars>>

\* a check that looks at the signal only and lets a non-zero exit pass
CompileFailed_signalOnly(ws) == ~WIFEXITED(ws)

\* lib.rs 121: the compile phase failed
CompileFailed(ws) == ~WIFEXITED(ws) \/ WEXITSTATUS(ws) # 0

\* lib.rs 117-121: panic on a failed wait, close stderr_tx, branch
CompileAfterLoop ==
    /\ pc = "c_after"
    /\ IF wait < 0
         THEN /\ pc' = "panic"
              /\ workspace' = DropTempDir
              /\ UNCHANGED fds
         ELSE /\ fds' = fds \ {<<"parent", "cerr", "tx">>}
              /\ pc' = IF CompileFailed(wait_status) THEN "c_read" ELSE "r_stdin"
              /\ UNCHANGED workspace
    /\ UNCHANGED <<inputs, files, mi, mounted, mountCalls, plen, procVars,
                   clockVars, waitVars, outVars, histVars>>

\* lib.rs 124-133: one turn of the loop that collects the compiler's stderr
CompileRead ==
    /\ pc = "c_read"
    /\ CanRead("cerr")
    /\ LET len == ReadLen("cerr") IN
         /\ plen' = [plen EXCEPT !["cerr"] = @ - len]
         /\ stderr' = stderr + len
         /\ pc' = IF len = 0 \/ stderr' > StderrCap THEN "c_ret" ELSE "c_read"
    /\ UNCHANGED <<inputs, fsVars, fds, procVars, clockVars, waitVars,
                   status, stdout, result, histVars>>

\* lib.rs 134-140: return CompilationError; `dir` is dropped
CompileReturn ==
    /\ pc = "c_ret"
    /\ result' = [status |-> CompilationError, stdout |-> 0, stderr |-> stderr,
                  memory_kib |-> 0, user_time_ms |-> 0]
    /\ workspace' = DropTempDir
    /\ pc' = "done"
    /\ UNCHANGED <<inputs, files, mi, mounted, mountCalls, fds, plen, procVars,
                   clockVars, waitVars, status, stdout, stderr, histVars>>

\* ---- the parent: run phase --------------------------------------------
\* lib.rs 143-144
WriteStdin ==
    /\ pc = "r_stdin"
    /\ files' = files \cup {"stdin"}
    /\ pc' = "r_pipes"
    /\ UNCHANGED <<inputs, workspace, mi, mounted, mountCalls, fds, plen,
                   procVars, clockVars, waitVars, outVars, histVars>>

\* lib.rs 145-155: the two pipes (stack and argv carry no state)
RunPipes ==
    /\ pc = "r_pipes"
    /\ fds' = fds \cup {<<"parent", "out", "rx">>, <<"parent", "out", "tx">>,
                        <<"parent", "err", "rx">>, <<"parent", "err", "tx">>}
    /\ mi' = 1
    /\ pc' = "r_mount"
    /\ UNCHANGED <<inputs, workspace, files, mounted, mountCalls, plen,
                   procVars, clockVars, waitVars, outVars, histVars>>

\* lib.rs 156-170: one turn of the mount loop; mount(2) may fail
MountStep ==
    /\ pc = "r_mount"
    /\ IF mi > nmounts
         THEN /\ pc' = "r_clone"
              /\ UNCHANGED <<workspace, mi, mounted, mountCalls>>
         ELSE /\ mountCalls' = mountCalls + 1
              /\ \/ /\ mounted' = mounted \cup {mi}
                    /\ mi' = mi + 1
                    /\ pc' = "r_mount"
                    /\ UNCHANGED workspace
                 \/ /\ pc' = "panic"
                    /\ workspace' = DropTempDir
                    /\ UNCHANGED <<mi, mounted>>
    /\ UNCHANGED <<inputs, files, fds, plen, procVars, clockVars, waitVars,
                   outVars, histVars>>

\* lib.rs 171-201
RunClone ==
    /\ pc = "r_clone"
    /\ \/ /\ rchild' = [NoChild EXCEPT !.st = "setup"]
          /\ fds' = fds \cup Inherit("parent", "rchild")
          /\ pc' = "r_deadline"
          /\ UNCHANGED workspace
       \/ /\ pc' = "panic"          \* clone(2) failed: unwrap
          /\ workspace' = DropTempDir
          /\ UNCHANGED <<rchild, fds>>
    /\ UNCHANGED <<inputs, files, mi, mounted, mountCalls, plen, cprog, cchild,
                   rprog, desc, clockVars, waitVars, outVars, histVars>>

\* lib.rs 202-205
RunDeadline ==
    /\ pc = "r_deadline"
    /\ deadline' = now + timeout
    /\ usage' = empty_rusage
    /\ wait_status' = Exited(0)
    /\ slow' = FALSE
    /\ pc' = "r_wait"
    /\ UNCHANGED <<inputs, fsVars, fds, plen, procVars, now, wait,
                   outVars, histVars>>

\* a loop that is left after the first poll, whatever wait4 said
RunWait_early ==
    /\ pc = "r_wait"
    /\ Wait4(rchild, rchild')
    /\ mi' = 1
    /\ pc' = "r_umount"
    /\ UNCHANGED <<inputs, workspace, files, mounted, mountCalls, fds, plen,
                   cprog, cchild, rprog, desc, clockVars, outVars, histVars>>

\* lib.rs 207-210
RunWait ==
    /\ pc = "r_wait"
    /\ Wait4(rchild, rchild')
    /\ mi' = 1
    /\ pc' = IF wait' # 0 THEN "r_umount" ELSE "r_check"
    /\ UNCHANGED <<inputs, workspace, files, mounted, mountCalls, fds, plen,
                   cprog, cchild, rprog, desc, clockVars, outVars, histVars>>

\* a supervisor that kills on every turn of the loop, deadline or not
RunCheck_always ==
    /\ pc = "r_check"
    /\ rchild' = Kill(rchild)
    /\ killSent' = killSent \cup {"run"}
    /\ killTime' = now - deadline
    /\ strayKill' = (strayKill \/ Reported(rchild) \/ wait # 0)
    /\ pc' = "r_wait"
    /\ UNCHANGED <<inputs, fsVars, fds, plen, cprog, cchild, rprog, desc,
                   clockVars, waitVars, outVars>>

\* lib.rs 211-213
RunCheck ==
    /\ pc = "r_check"
    /\ IF now > deadline
         THEN /\ rchild' = Kill(rchild)
              /\ killSent' = killSent \cup {"run"}
              /\ killTime' = now - deadline
              /\ strayKill' = (strayKill \/ Reported(rchild) \/ wait # 0)
         ELSE UNCHANGED <<rchild, killSent, killTime, strayKill>>
    /\ pc' = "r_wait"
    /\ UNCHANGED <<inputs, fsVars, fds, plen, cprog, cchild, rprog, desc,
                   clockVars, waitVars, outVars>>

\* a run phase that goes on to the status without unmounting anything
UmountStep_skipped ==
    /\ pc = "r_umount"
    /\ pc' = "r_status"
    /\ UNCHANGED <<inputs, fsVars, fds, plen, procVars, clockVars, waitVars,
                   outVars, histVars>>

\* lib.rs 215-218: one turn of the unmount loop; umount(2) may fail
UmountStep ==
    /\ pc = "r_umount"
    /\ IF mi > nmounts
         THEN /\ pc' = "r_status"
              /\ UNCHANGED <<workspace, mi, mounted, mountCalls>>
         ELSE /\ mountCalls' = mountCalls + 1
              /\ \/ /\ mounted' = mounted \ {mi}
                    /\ mi' = mi + 1
                    /\ pc' = "r_umount"
                    /\ UNCHANGED workspace
                 \/ /\ pc' = "panic"
                    /\ workspace' = DropTempDir
                    /\ UNCHANGED <<mi, mounted>>
    /\ UNCHANGED <<inputs, files, fds, plen, procVars, clockVars, waitVars,
                   outVars, histVars>>

\* lib.rs 222-228: the status read off the wait status
StatusOf(ws) ==
    IF WIFEXITED(ws) THEN Exit(WEXITSTATUS(ws))
    ELSE IF WTERMSIG(ws) = SIGKILL THEN TimeLimitExceeded
    ELSE RuntimeError

\* a run phase that does not look at wait4's error
RunStatus_unchecked ==
    /\ pc = "r_status"
    /\ status' = StatusOf(wait_status)
    /\ pc' = "r_close"
    /\ UNCHANGED <<inputs, fsVars, fds, plen, procVars, clockVars, waitVars,
                   stdout, stderr, result, histVars>>

\* lib.rs 219-228
RunStatus ==
    /\ pc = "r_status"
    /\ IF wait < 0
         THEN /\ pc' = "panic"
              /\ workspace' = DropTempDir
              /\ UNCHANGED status
         ELSE /\ status' = StatusOf(wait_status)
              /\ pc' = "r_close"
              /\ UNCHANGED workspace
    /\ UNCHANGED <<inputs, files, mi, mounted, mountCalls, fds, plen, procVars,
                   clockVars, waitVars, stdout, stderr, result, histVars>>

\* a run phase that starts reading with its write ends still open
RunCloseTx_forgotten ==
    /\ pc = "r_close"
    /\ pc' = "r_out"
    /\ UNCHANGED <<inputs, fsVars, fds, plen, procVars, clockVars, waitVars,
                   outVars, histVars>>

\* lib.rs 229-232
RunCloseTx ==
    /\ pc = "r_close"
    /\ fds' = fds \ {<<"parent", "out", "tx">>, <<"parent", "err", "tx">>}
    /\ pc' = "r_out"
    /\ UNCHANGED <<inputs, fsVars, plen, procVars, clockVars, waitVars,
                   outVars, histVars>>

\* lib.rs 233-242: one turn of the stdout loop
RunReadStdout ==
    /\ pc = "r_out"
    /\ CanRead("out")
    /\ LET len == ReadLen("out") IN
         /\ plen' = [plen EXCEPT !["out"] = @ - len]
         /\ IF len = 0
              THEN /\ pc' = "r_err"
                   /\ UNCHANGED <<stdout, status>>
              ELSE /\ stdout' = stdout + len
                   /\ status' = IF stdout' > StdoutCap
                                  THEN OutputLimitExceeded ELSE status
                   /\ pc' = "r_out"
    /\ UNCHANGED <<inputs, fsVars, fds, procVars, clockVars, waitVars,
                   stderr, result, histVars>>

\* lib.rs 243-253: one turn of the stderr loop
RunReadStderr ==
    /\ pc = "r_err"
    /\ CanRead("err")
    /\ LET len == ReadLen("err") IN
         /\ plen' = [plen EXCEPT !["err"] = @ - len]
         /\ stderr' = stderr + len
         /\ pc' = IF len = 0 \/ stderr' > StderrCap THEN "r_ret" ELSE "r_err"
    /\ UNCHANGED <<inputs, fsVars, fds, procVars, clockVars, waitVars,
                   status, stdout, result, histVars>>

\* lib.rs 254-260: return; `dir` is dropped
RunReturn ==
    /\ pc = "r_ret"
    /\ result' = [status |-> status, stdout |-> stdout, stderr |-> stderr,
                  memory_kib |-> usage.ru_majflt * PageKib,
                  user_time_ms |-> usage.tv_sec * 1000 + usage.tv_usec \div 1000]
    /\ workspace' = DropTempDir
    /\ pc' = "done"
    /\ UNCHANGED <<inputs, files, mi, mounted, mountCalls, fds, plen, procVars,
                   clockVars, waitVars, status, stdout, stderr, histVars>>

\* ---- the children, the kernel and the clock ----------------------------
Room(p) == PipeCap - plen[p]
\* the process ends: it becomes a zombie and its fds are closed
Die(c, ws) == [c EXCEPT !.st = "zombie", !.ws = ws, !.kp = FALSE]

\* lib.rs 90-95: the compile child's setup and execv of /bin/bash -c
CompileChildExec ==
    /\ cchild.st = "setup"
    /\ cchild' = [cchild EXCEPT !.st = "running"]
    /\ UNCHANGED <<pc, inputs, fsVars, fds, plen, cprog, rprog, rchild, desc,
                   clockVars, waitVars, outVars, histVars>>

\* the compiler writes to fd 2 (lib.rs 93); write(2) blocks on a full pipe
CompileChildWrite ==
    /\ cchild.st = "running"
    /\ cchild.errLeft > 0
    /\ Room("cerr") > 0
    /\ LET n == Min(cchild.errLeft, Room("cerr")) IN
         /\ plen' = [plen EXCEPT !["cerr"] = @ + n]
         /\ cchild' = [cchild EXCEPT !.errLeft = @ - n]
    /\ UNCHANGED <<pc, inputs, fsVars, fds, cprog, rprog, rchild, desc,
                   clockVars, waitVars, outVars, histVars>>

\* the compile command ends on its own
CompileChildEnd ==
    /\ cchild.st = "running"
    /\ cchild.errLeft = 0
    /\ cprog.end # <<"loop">>
    /\ cchild' = Die(cchild, cprog.end)
    /\ fds' = CloseAll("cchild")
    /\ UNCHANGED <<pc, inputs, fsVars, plen, cprog, rprog, rchild, desc,
                   clockVars, waitVars, outVars, histVars>>

\* the kernel delivers the pending SIGKILL of lib.rs 114
CompileDeliverKill ==
    /\ cchild.st \in {"setup", "running"}
    /\ cchild.kp
    /\ cchild' = Die(cchild, Signaled(SIGKILL))
    /\ fds' = CloseAll("cchild")
    /\ UNCHANGED <<pc, inputs, fsVars, plen, cprog, rprog, rchild, desc,
                   clockVars, waitVars, outVars, histVars>>

\* lib.rs 175-192: one call of the run child's setup.  An unwrapped call
\* either succeeds, which `done` records, or fails: the panic cannot unwind
\* out of the clone callback, so the child aborts.  The result of the other
\* call is discarded, success or not.
RunChildSetup ==
    /\ rchild.st = "setup"
    /\ rchild.step < Len(SetupSteps)
    /\ LET step == SetupSteps[rchild.step] IN
         \/ /\ Unwrapped(step)
            /\ rchild' = [rchild EXCEPT !.step = @ + 1,
                                         !.done = Append(@, step)]
            /\ UNCHANGED fds
         \/ /\ Unwrapped(step)
            /\ rchild' = Die(rchild, Signaled(SIGABRT))
            /\ fds' = CloseAll("rchild")
         \/ /\ ~Unwrapped(step)
            /\ rchild' = [rchild EXCEPT !.step = @ + 1]
            /\ UNCHANGED fds
    /\ UNCHANGED <<pc, inputs, fsVars, plen, cprog, cchild, rprog, desc,
                   clockVars, waitVars, outVars, histVars>>

\* lib.rs 193: execve of the untrusted program, which from here on behaves
\* as one of RunPlans; a program that forks leaves a descendant holding
\* copies of fds 1 and 2 (the clone flags of lib.rs 197 create no PID
\* namespace, so it outlives the child).  A failed execve is unwrapped.
RunChildExec ==
    /\ rchild.st = "setup"
    /\ rchild.step = Len(SetupSteps)
    /\ \/ \E p \in RunPlans :
            /\ rprog' = p
            /\ rchild' = [rchild EXCEPT !.st = "running",
                                         !.step = @ + 1,
                                         !.done = Append(@, SetupSteps[rchild.step]),
                                         !.outLeft = p.out, !.errLeft = p.err]
            /\ IF p.fork
                 THEN /\ desc' = [st |-> "alive", outLeft |-> p.dout]
                      /\ fds' = fds \cup Inherit("rchild", "desc")
                 ELSE UNCHANGED <<desc, fds>>
       \/ /\ rchild' = Die(rchild, Signaled(SIGABRT))
          /\ fds' = CloseAll("rchild")
          /\ UNCHANGED <<rprog, desc>>
    /\ UNCHANGED <<pc, inputs, fsVars, plen, cprog, cchild,
                   clockVars, waitVars, outVars, histVars>>

\* the program writes to fd 1 (lib.rs 180)
RunChildWriteOut ==
    /\ rchild.st = "running"
    /\ rchild.outLeft > 0
    /\ Room("out") > 0
    /\ LET n == Min(rchild.outLeft, Room("out")) IN
         /\ plen' = [plen EXCEPT !["out"] = @ + n]
         /\ rchild' = [rchild EXCEPT !.outLeft = @ - n]
    /\ UNCHANGED <<pc, inputs, fsVars, fds, cprog, cchild, rprog, desc,
                   clockVars, waitVars, outVars, histVars>>

\* the program writes to fd 2 (lib.rs 183)
RunChildWriteErr ==
    /\ rchild.st = "running"
    /\ rchild.errLeft > 0
    /\ Room("err") > 0
    /\ LET n == Min(rchild.errLeft, Room("err")) IN
         /\ plen' = [plen EXCEPT !["err"] = @ + n]
         /\ rchild' = [rchild EXCEPT !.errLeft = @ - n]
    /\ UNCHANGED <<pc, inputs, fsVars, fds, cprog, cchild, rprog, desc,
                   clockVars, waitVars, outVars, histVars>>

\* the program ends on its own: exit(k), a fault, or a SIGKILL it (or the
\* kernel's OOM killer) raises itself
RunChildEnd ==
    /\ rchild.st = "running"
    /\ rchild.outLeft = 0 /\ rchild.errLeft = 0
    /\ rprog.end # <<"loop">>
    /\ rchild' = Die(rchild, rprog.end)
    /\ fds' = CloseAll("rchild")
    /\ UNCHANGED <<pc, inputs, fsVars, plen, cprog, cchild, rprog, desc,
                   clockVars, waitVars, outVars, histVars>>

\* the kernel delivers the pending SIGKILL of lib.rs 212
RunDeliverKill ==
    /\ rchild.st \in {"setup", "running"}
    /\ rchild.kp
    /\ rchild' = Die(rchild, Signaled(SIGKILL))
    /\ fds' = CloseAll("rchild")
    /\ UNCHANGED <<pc, inputs, fsVars, plen, cprog, cchild, rprog, desc,
                   clockVars, waitVars, outVars, histVars>>

\* the descendant writes to the stdout pipe it inherited
DescWrite ==
    /\ desc.st = "alive"
    /\ desc.outLeft > 0
    /\ Room("out") > 0
    /\ LET n == Min(desc.outLeft, Room("out")) IN
         /\ plen' = [plen EXCEPT !["out"] = @ + n]
         /\ desc' = [desc EXCEPT !.outLeft = @ - n]
    /\ UNCHANGED <<pc, inputs, fsVars, fds, cprog, cchild, rprog, rchild,
                   clockVars, waitVars, outVars, histVars>>

\* the descendant exits, if it ever does
DescExit ==
    /\ desc.st = "alive"
    /\ desc.outLeft = 0
    /\ rprog.dend = "exit"
    /\ desc' = [desc EXCEPT !.st = "gone"]
    /\ fds' = CloseAll("desc")
    /\ UNCHANGED <<pc, inputs, fsVars, plen, cprog, cchild, rprog, rchild,
                   clockVars, waitVars, outVars, histVars>>

\* the run child has a step it could take
RunChildRunnable ==
    \/ rchild.st = "setup"
    \/ /\ rchild.st = "running"
       /\ \/ rchild.outLeft > 0 /\ Room("out") > 0
          \/ rchild.errLeft > 0 /\ Room("err") > 0
          \/ rchild.outLeft = 0 /\ rchild.errLeft = 0 /\ rprog.end # <<"loop">>

\* the compile child has a step it could take
CompileChildRunnable ==
    \/ cchild.st = "setup"
    \/ /\ cchild.st = "running"
       /\ \/ cchild.errLeft > 0 /\ Room("cerr") > 0
          \/ cchild.errLeft = 0 /\ cprog.end # <<"loop">>

\* Instant::now() advances (lib.rs 113, 211); only its relation to the
\* deadline of the current poll loop is observed
Tick ==
    /\ pc \in {"c_wait", "c_check", "r_wait", "r_check"}
    /\ now <= deadline
    /\ now' = now + 1
    /\ slow' = (slow \/ CompileChildRunnable \/ RunChildRunnable)
    /\ UNCHANGED <<pc, inputs, fsVars, fds, plen, procVars, deadline,
                   waitVars, outVars, histVars>>

\* ---- specifications ------------------------------------------------------
ParentStep ==
    \/ Start \/ CompilePipe \/ CompileClone \/ CompileDeadline
    \/ CompileWait \/ CompileCheck \/ CompileAfterLoop \/ CompileRead
    \/ CompileReturn
    \/ WriteStdin \/ RunPipes \/ MountStep \/ RunClone \/ RunDeadline
    \/ RunWait \/ RunCheck \/ UmountStep \/ RunStatus \/ RunCloseTx
    \/ RunReadStdout \/ RunReadStderr \/ RunReturn

ChildStep ==
    \/ CompileChildExec \/ CompileChildWrite \/ CompileChildEnd
    \/ RunChildSetup \/ RunChildExec \/ RunChildWriteOut \/ RunChildWriteErr \/ RunChildEnd
    \/ DescWrite \/ DescExit

KernelStep == CompileDeliverKill \/ RunDeliverKill

Next == ParentStep \/ ChildStep \/ KernelStep \/ Tick

Spec == Init /\ [][Next]_vars

\* the parent runs whenever it is not blocked in a read, the clock advances,
\* the kernel delivers signals, and processes that can run do run
FairSpec ==
    /\ Spec
    /\ WF_vars(ParentStep)
    /\ WF_vars(Tick)
    /\ WF_vars(KernelStep)
    /\ WF_vars(ChildStep)

TypeOK ==
    /\ pc \in {"idle", "start", "c_pipe", "c_clone", "c_deadline", "c_wait", "c_check",
               "c_after", "c_read", "c_ret", "r_stdin", "r_pipes", "r_mount",
               "r_clone", "r_deadline", "r_wait", "r_check", "r_umount",
               "r_status", "r_close", "r_out", "r_err", "r_ret", "done", "panic"}
    /\ \A p \in Pipes : plen[p] \in 0..PipeCap
    /\ mounted \subseteq 1..nmounts

\* ---- main.rs: the consumer loop ------------------------------------------
I32Max == 2147483647
\* `x as i32` of a non-negative i64: the low 32 bits, two's complement
AsI32(x) ==
    IF x <= I32Max THEN x
    ELSE LET m == x % (2 ^ 32) IN IF m > I32Max THEN m - 2 ^ 32 ELSE m

\* main.rs 55-65
RunResultOf(r) ==
    IF r.status[1] = "Exit"
    THEN <<"Exit", r.status[2], AsI32(r.user_time_ms), AsI32(r.memory_kib)>>
    ELSE <<r.status[1]>>

\* main.rs 28-32 and 81: next message; a delivery is decoded and its language
\* looked up, anything else ends the loop
MainRecv ==
    /\ mpc = "recv"
    /\ consumer # <<>>
    /\ consumer' = Tail(consumer)
    /\ \/ /\ Head(consumer)[1] = "Delivery"
          /\ run' = Head(consumer)[2]
          /\ mpc' = IF Head(consumer)[2].language \in Configured
                    THEN "ack" ELSE "recv"
       \/ /\ Head(consumer)[1] # "Delivery"
          /\ mpc' = "exit"
          /\ UNCHANGED run
    /\ UNCHANGED <<pc, hasCompile, nmounts, log, fsVars, fds, plen, procVars,
                   clockVars, waitVars, outVars, histVars>>

\* main.rs 33: delivery.ack(&channel).unwrap()
MainAck ==
    /\ mpc = "ack"
    /\ \/ /\ log' = Append(log, <<"ack", run.id>>)
          /\ mpc' = "fetched"
       \/ /\ mpc' = "crashed"
          /\ UNCHANGED log
    /\ UNCHANGED <<pc, hasCompile, nmounts, consumer, run, fsVars, fds, plen,
                   procVars, clockVars, waitVars, outVars, histVars>>

\* main.rs 34-43: publish Running { id, state: Fetched }
MainFetched ==
    /\ mpc = "fetched"
    /\ \/ /\ log' = Append(log, <<"Fetched", run.id>>)
          /\ mpc' = "call"
       \/ /\ mpc' = "crashed"
          /\ UNCHANGED log
    /\ UNCHANGED <<pc, hasCompile, nmounts, consumer, run, fsVars, fds, plen,
                   procVars, clockVars, waitVars, outVars, histVars>>

\* main.rs 44: launch is entered
MainCallLaunch ==
    /\ mpc = "call"
    /\ pc = "idle"
    /\ pc' = "start"
    /\ log' = Append(log, <<"launch", run.id>>)
    /\ mpc' = "launching"
    /\ UNCHANGED <<hasCompile, nmounts, consumer, run, fsVars, fds, plen,
                   procVars, clockVars, waitVars, outVars, histVars>>

\* main.rs 54-78: launch has returned; publish Running { id, state: Finished }
MainFinished ==
    /\ mpc = "launching"
    /\ pc = "done"
    /\ \/ /\ log' = Append(log, <<"Finished", run.id, RunResultOf(result),
                                  result.stdout, result.stderr>>)
          /\ mpc' = "recv"
       \/ /\ mpc' = "crashed"
          /\ UNCHANGED log
    /\ UNCHANGED <<pc, hasCompile, nmounts, consumer, run, fsVars, fds, plen,
                   procVars, clockVars, waitVars, outVars, histVars>>

MainStep == MainRecv \/ MainAck \/ MainFetched \/ MainCallLaunch \/ MainFinished

MainNext == MainStep \/ Next

MainSpec == MainInit /\ [][MainNext]_vars

\* as FairSpec, and main runs whenever it is not inside launch
MainFairSpec ==
    /\ MainSpec
    /\ WF_vars(MainStep)
    /\ WF_vars(ParentStep)
    /\ WF_vars(Tick)
    /\ WF_vars(KernelStep)
    /\ WF_vars(ChildStep)

\* ---- claims ----------------------------------------------------------------
Returned == pc = "done"
RanRunPhase == rchild.st # "none"
ParentFds == {f \in fds : f[1] = "parent"}
\* the compile child ended with a non-zero exit or by a signal
CompileChildFailed ==
    /\ cchild.st \in {"zombie", "reaped"}
    /\ cchild.ws # Exited(0)
\* the run program is `while(1){}`: no output, no descendant, no end
SilentLoop ==
    /\ RanRunPhase
    /\ rprog = [out |-> 0, err |-> 0, end |-> <<"loop">>, fork |-> FALSE,
                dout |-> 0, dend |-> "exit"]

\* C1: a run program that by itself exits with code k in no time (no clock
\* tick passes while it can run), writing at most the stdout cap and any
\* amount of stderr, yields Exit(k).
C1_ExitWithinTimeout ==
    (/\ Returned /\ RanRunPhase
     /\ ~rprog.fork
     /\ rprog.end[1] = "exited"
     /\ rprog.out <= StdoutCap
     /\ ~slow)
    => result.status = Exit(rprog.end[2])

\* C2: a run program that writes more than the stdout cap to stdout (and
\* takes no time of its own to do so) yields OutputLimitExceeded with at
\* least the cap collected.
C2_OutputFlood ==
    (Returned /\ RanRunPhase /\ rprog.out > StdoutCap /\ ~slow)
    => (result.status = OutputLimitExceeded /\ result.stdout >= StdoutCap)

\* C3: with a run program that loops forever in silence, launch eventually
\* returns TimeLimitExceeded (unless a host call fails first).
C3_LoopTimesOut ==
    (pc = "r_wait" /\ SilentLoop)
    ~> (pc = "panic" \/ (Returned /\ result.status = TimeLimitExceeded))

C3_Witness ==
    /\ Returned /\ SilentLoop
    /\ result.status = TimeLimitExceeded
    /\ "run" \in killSent

\* C4: TimeLimitExceeded is returned only if the supervisor itself sent the
\* kill to the run child, after the deadline.
C4_TimeoutMeansSupervisorKill ==
    (Returned /\ result.status = TimeLimitExceeded)
    => ("run" \in killSent /\ killTime > 0)

\* C5: once the compile child has exited non-zero or died by a signal, the
\* run phase leaves no trace (no stdin file, no mount or unmount call, no run
\* child), and what launch returns is CompilationError with empty stdout and
\* zero metrics.
C5_CompileFailureSkipsRun ==
    (hasCompile /\ CompileChildFailed)
    => /\ "stdin" \notin files
       /\ mountCalls = 0 /\ mounted = {}
       /\ rchild.st = "none"
       /\ Returned =>
            /\ result.status = CompilationError
            /\ result.stdout = 0
            /\ result.memory_kib = 0
            /\ result.user_time_ms = 0

C5_Witness ==
    /\ Returned /\ hasCompile
    /\ cchild.st = "reaped" /\ cchild.ws = Signaled(SIGKILL)
    /\ "compile" \in killSent
    /\ usage # empty_rusage
    /\ result.status = CompilationError

\* C6: the returned stderr is at most the stderr cap long.
C6_StderrBounded == Returned => result.stderr <= StderrCap

\* C7: the returned stdout is at most the stdout cap long.
C7_StdoutBounded == Returned => result.stdout <= StdoutCap

\* C8: every call to launch eventually returns an outcome or fails with a
\* host error, whatever the untrusted child and its descendants do.
C8_Terminates == <>(pc \in {"done", "panic"})

\* C9: when launch returns an outcome the workspace directory is gone and
\* no mount destination is still mounted.
C9_WorkspaceReleased == Returned => (~workspace /\ mounted = {})

C9_Witness ==
    /\ Returned /\ RanRunPhase
    /\ nmounts = MaxMounts
    /\ mountCalls = 2 * nmounts
    /\ ~workspace

\* C10: when launch returns an outcome the parent holds none of the pipe
\* file descriptors it allocated.
C10_NoPipeFdLeft == Returned => ParentFds = {}

\* C11: when launch returns an outcome, every child it spawned has been
\* reaped by a wait4 that succeeded; no zombie is left, also after a kill.
C11_ChildrenReaped ==
    Returned =>
        /\ cchild.st = (IF hasCompile THEN "reaped" ELSE "none")
        /\ rchild.st \in {"none", "reaped"}
        /\ result.status # CompilationError => rchild.st = "reaped"

C11_Witness ==
    /\ Returned
    /\ cchild.st = "reaped"
    /\ rchild.st = "reaped" /\ rchild.ws = Signaled(SIGKILL)
    /\ "run" \in killSent

\* C12: on every exit of launch, an outcome or a host error, no mount that
\* was established is left in place.
C12_MountsReleasedOnEveryExit == pc \in {"done", "panic"} => mounted = {}

\* C13: the mounts are established in list order, all of them are in place
\* whenever the run child exists and is not yet reaped, and so none is
\* removed before then.
C13_MountsBracketRunChild ==
    /\ [](rchild.st \in {"setup", "running", "zombie"} => mounted = 1..nmounts)
    /\ [][mounted' # mounted /\ mounted \subseteq mounted'
            => mounted' = mounted \cup {Cardinality(mounted) + 1}]_vars

C13_Witness ==
    /\ pc = "r_status"
    /\ nmounts = MaxMounts
    /\ rchild.st = "reaped"
    /\ mounted = {}
    /\ mountCalls = 2 * nmounts

\* C14: the run-phase verdict follows the rules in order: OutputLimitExceeded
\* if the collected stdout reached the cap; else Exit(code) for a normal
\* exit; else TimeLimitExceeded for a death by the supervisor's kill; else
\* RuntimeError.
C14_VerdictRules ==
    (Returned /\ result.status # CompilationError)
    => result.status =
         IF result.stdout >= StdoutCap THEN OutputLimitExceeded
         ELSE IF WIFEXITED(rchild.ws) THEN Exit(WEXITSTATUS(rchild.ws))
         ELSE IF WTERMSIG(rchild.ws) = SIGKILL /\ "run" \in killSent
                THEN TimeLimitExceeded
         ELSE RuntimeError

\* C15: the run child has exec'd the program only if chdir, chroot, the
\* rewiring of fds 0, 1 and 2 and the three setrlimit calls have each
\* succeeded before, in the order of the closure; after a failed one of
\* these there is no exec.
Essential(steps) == SelectSeq(steps, LAMBDA x : x # "close_stderr_tx")
C15_ExecOnlyAfterSetup ==
    (rchild.st = "running" \/ rprog # NoPlan \/ desc.st # "none")
    => Essential(rchild.done) = Essential(SetupSteps)

C15_Witness ==
    /\ rchild.st = "running"
    /\ rchild.outLeft > 0
    /\ rchild.done = Essential(SetupSteps)

\* C16: in both phases, while the parent reads a pipe its own write end of
\* that pipe is closed and its read end is open, and a write end is closed
\* only once the phase's child exists.
Has(p, end) == <<"parent", p, end>> \in fds
C16_CloseBeforeRead ==
    /\ pc = "c_read" => (~Has("cerr", "tx") /\ Has("cerr", "rx"))
    /\ pc = "r_out" => (~Has("out", "tx") /\ Has("out", "rx"))
    /\ pc = "r_err" => (~Has("err", "tx") /\ Has("err", "rx"))
    /\ (Has("cerr", "rx") /\ ~Has("cerr", "tx")) => cchild.st # "none"
    /\ \A p \in {"out", "err"} :
         (Has(p, "rx") /\ ~Has(p, "tx")) => rchild.st # "none"

C16_Witness ==
    /\ pc = "r_err"
    /\ hasCompile
    /\ stdout > 0
    /\ plen["err"] > 0

\* C17: the supervisor calls kill only when now > deadline and only on a
\* child that wait4 has not reported; after the report no kill is sent.
C17_KillOnlyLateAndUnreaped ==
    /\ ~strayKill
    /\ killSent # {} => killTime > 0

C17_Witness ==
    /\ Returned
    /\ "run" \in killSent
    /\ rchild.st = "reaped" /\ rchild.ws # Signaled(SIGKILL)

\* C18: a compile command that by itself exits with status 0 in no time (no
\* clock tick passes while it can run) never yields CompilationError,
\* however much it writes to stderr.
C18_CompileSuccessRuns ==
    (/\ Returned /\ hasCompile
     /\ cprog.end = Exited(0)
     /\ ~slow)
    => result.status # CompilationError

\* what the log records about the delivery whose job has this id
EventsOf(id) == SelectSeq(log, LAMBDA ev : ev[2] = id)
Kinds(evs) == [i \in 1..Len(evs) |-> evs[i][1]]
IsPrefix(a, b) == Len(a) <= Len(b) /\ \A i \in 1..Len(a) : a[i] = b[i]
Jobs == {Messages[i][2] : i \in {k \in 1..Len(Messages) : Messages[k][1] = "Delivery"}}
FinishedOf(id) == SelectSeq(log, LAMBDA ev : ev[1] = "Finished" /\ ev[2] = id)
\* the worker process is gone: an unwrap in launch or in main panicked
Crashed == pc = "panic" \/ mpc = "crashed"

\* the order and the content of what main does for each delivery
C19_Order ==
    \A j \in Jobs :
        IF j.language \in Configured
        THEN /\ IsPrefix(Kinds(EventsOf(j.id)),
                         <<"ack", "Fetched", "launch", "Finished">>)
             /\ \A i \in 1..Len(FinishedOf(j.id)) :
                    /\ FinishedOf(j.id)[i][3] = RunResultOf(result)
                    /\ FinishedOf(j.id)[i][3][1] = result.status[1]
                    /\ Len(FinishedOf(j.id)[i][3]) > 1 <=> result.status[1] = "Exit"
                    /\ FinishedOf(j.id)[i][4] = result.stdout
                    /\ FinishedOf(j.id)[i][5] = result.stderr
        ELSE EventsOf(j.id) = <<>>

\* a job in a configured language that was taken from the queue gets its
\* Finished event, unless the worker process crashes
C19_Answered ==
    \A j \in Jobs :
        (j.language \in Configured /\ run = j)
            ~> (FinishedOf(j.id) # <<>> \/ Crashed)

\* C19: for every delivered job in a configured language main acknowledges the
\* delivery, publishes one Fetched event, calls launch once and publishes one
\* Finished event with the mapped status and both streams, in this order; a
\* job in another language gets no acknowledgement and no event.
C19_ConsumeLoop == []C19_Order /\ C19_Answered

====
